---- MODULE Spec2Model ----
(***************************************************************************)
(* Model of the Tron USDT risk tracker: the heuristic rule engine of       *)
(* services/tronService.ts (calculateRiskScore, analyzeTronRisk), the      *)
(* external assessment of services/geminiService.ts                        *)
(* (analyzeTransactionsWithGemini) and the fusion done by App.handleSearch.*)
(*                                                                         *)
(* Conventions                                                             *)
(*  - time is counted in seconds (block_timestamp / 1000), so that         *)
(*    30 days and the 10 s gap of the code keep their values within TLC's  *)
(*    integers;                                                            *)
(*  - amounts are counted in units of 100 base units of the token (10^-4   *)
(*    USDT), so that the 5000.00 USDT of the mock data fits TLC's integers;*)
(*    a TronGrid value string is the record [i, f] of the digits before    *)
(*    and after its decimal point, in that unit; parseInt keeps i;         *)
(*  - a display value (toFixed(2)) is a number of hundredths of a token;   *)
(*  - an optional JSON field is a sequence of length 0 (absent) or 1.      *)
(***************************************************************************)
EXTENDS Integers, Sequences, FiniteSets, TLC

VARIABLES
    address,        \* App state: the address typed in the search box
    loading,        \* App state
    profile,        \* App state: WalletProfile or Null
    analysis,       \* App state: RiskAnalysis or Null
    error,          \* App state: error text
    isDemoMode,     \* App state
    pc,             \* position of the running handleSearch
    local,          \* locals of the running handleSearch
    rawTxs,         \* TronGridTx records: the engine's input under SpecEngine
    shape,          \* kinds of the bursts rawTxs was built from
    now,            \* Date.now() read by calculateRiskScore, in seconds
    calc            \* result of calculateRiskScore(address, rawTxs), or Null

vars == <<address, loading, profile, analysis, error, isDemoMode, pc, local,
          rawTxs, shape, now, calc>>

uiVars == <<address, loading, profile, analysis, error, isDemoMode, pc, local>>

engineVars == <<rawTxs, shape, now, calc>>

-----------------------------------------------------------------------------
(* Bounds of the model *)

\* longest transaction history the data source hands over
MaxTxs == 16

\* number of bursts (runs of one kind of transaction) in a history
MaxRuns == 2

\* longest inbound history of SpecFanIn
MaxInbound == 20

-----------------------------------------------------------------------------
(* Values *)

Null == [null |-> TRUE]

None == <<>>

Some(v) == <<v>>

Min(a, b) == IF a < b THEN a ELSE b

Max(a, b) == IF a > b THEN a ELSE b

Range(s) == {s[i] : i \in 1..Len(s)}

\* types.ts RiskLevel
RiskLevel == {"CRITICAL", "HIGH", "MEDIUM", "LOW", "SAFE"}

\* tronService.ts
USDT_CONTRACT == "TJk5kQ5eCbnEGMEcjmJV1YwYGttCkVfeSm"

KNOWN_EXCHANGES ==
    {"TN9RRaX5H7J4u55rKk5yQe5M5n4C3b5y5",
     "TMuA6YqfCeX8EhbfYEg5y7S4DqzSJireY9",
     "TV6MuMXfmLbBqePp9yrhMH2aFhqbKX4T54",
     "TTk9j6K8p2T6c7W9E3y5L7b8J4b8L4b8L",
     "TYDzsYUEpvnYmQk4zGP9sWWcTEd2MiAtW6",
     "TAnz5363F694F16532457496666666666"}

\* const thirtyDaysMs = 30 * 24 * 60 * 60 * 1000, in seconds
thirtyDaysMs == 30 * 24 * 60 * 60

\* String.prototype.toUpperCase on the asset symbols of the model
toUpperCase(s) ==
    CASE s = "usdt"   -> "USDT"
      [] s = "UsDt"   -> "USDT"
      [] s = "Tether" -> "TETHER"
      [] s = "tether" -> "TETHER"
      [] s = "usdc"   -> "USDC"
      [] s = "critical" -> "CRITICAL"
      [] s = "High"   -> "HIGH"
      [] s = "safe"   -> "SAFE"
      [] OTHER        -> s

\* parseInt of a decimal string: the digits before the decimal point
parseInt(s) == s.i

\* 10 ^ decimals
RECURSIVE Pow10(_)
Pow10(d) == IF d = 0 THEN 1 ELSE 10 * Pow10(d - 1)

\* timeDiff(date1, date2) = Math.abs(date1 - date2) / 1000, in seconds
timeDiff(date1, date2) == IF date1 >= date2 THEN date1 - date2 ELSE date2 - date1

\* arr.includes(x) || arr.push(x), for each x of items in order: arr grows
\* by the items it does not hold, each at its first occurrence
PushEachUnique(arr, items) ==
    LET keep   == {i \in 1..Len(items) :
                      /\ items[i] \notin Range(arr)
                      /\ \A j \in 1..(i - 1) : items[j] # items[i]}
        nth(r) == CHOOSE i \in keep : Cardinality({j \in keep : j <= i}) = r
    IN  arr \o [r \in 1..Cardinality(keep) |-> items[nth(r)]]

\* arr.map(f)
Map(arr, f(_)) == [i \in 1..Len(arr) |-> f(arr[i])]

\* arr.slice(0, n)
Slice0(arr, n) == SubSeq(arr, 1, Min(n, Len(arr)))

-----------------------------------------------------------------------------
(* tronService.ts: the rule engine *)

\* isImpostor comparing the symbol as it is spelled, without toUpperCase
isImpostorCaseSensitive(tx) ==
    LET symbol   == tx.token_info.symbol
        contract == tx.token_info.address
    IN  (symbol = "USDT" \/ symbol = "TETHER") /\ contract # USDT_CONTRACT

\* Rule 1 filter: symbol is USDT or TETHER, contract is not the official one
isImpostor(tx) ==
    LET symbol   == toUpperCase(tx.token_info.symbol)
        contract == tx.token_info.address
    IN  (symbol = "USDT" \/ symbol = "TETHER") /\ contract # USDT_CONTRACT

fakeTokenTxs(txs) == SelectSeq(txs, isImpostor)

\* the Rule 2 filter without its 30-day window
isSmallInboundAnyAge(addr, tx, t) ==
    /\ tx.to = addr
    /\ parseInt(tx.value) < Pow10(tx.token_info.decimals) \div 1000

\* Rule 2 filter: inbound, below 0.1 unit, within the last 30 days.
\* With amounts in units of 100 base units, parseInt(value) / 10^decimals < 0.1
\* is parseInt(value) < 10^decimals / 1000.
isSmallInbound(addr, tx, t) ==
    /\ tx.to = addr
    /\ parseInt(tx.value) < Pow10(tx.token_info.decimals) \div 1000
    /\ (t - tx.block_timestamp) < thirtyDaysMs

smallInbound(addr, txs, t) ==
    SelectSeq(txs, LAMBDA tx : isSmallInbound(addr, tx, t))

\* the Rule 3 count taken over all pairs, adjacent or not
rapidTxCountAllPairs(txs) ==
    Cardinality({p \in (1..Len(txs)) \X (1..Len(txs)) :
        /\ p[1] < p[2]
        /\ timeDiff(txs[p[1]].block_timestamp, txs[p[2]].block_timestamp) < 10})

\* Rule 3 loop: adjacent pairs less than 10 seconds apart
rapidTxCount(txs) ==
    Cardinality({i \in 1..(Len(txs) - 1) :
        timeDiff(txs[i].block_timestamp, txs[i + 1].block_timestamp) < 10})

\* Rule 4
inboundTxs(addr, txs) == SelectSeq(txs, LAMBDA tx : tx.to = addr)

\* the senders counted once per inbound transaction
uniqueSendersPerTransaction(inbound) == {<<i, inbound[i].from>> : i \in 1..Len(inbound)}

\* new Set(inboundTxs.map(tx => tx.from))
uniqueSenders(inbound) == {tx.from : tx \in Range(inbound)}

\* the filter keeping the senders that are not in the registry
knownExchangeInteractionsInverted(registry, inbound) ==
    SelectSeq(inbound, LAMBDA tx : tx.from \notin registry)

\* inboundTxs.filter(tx => KNOWN_EXCHANGES[tx.from]), the registry being
\* the set of the keys of KNOWN_EXCHANGES
knownExchangeInteractions(registry, inbound) ==
    SelectSeq(inbound, LAMBDA tx : tx.from \in registry)

\* Rule 5
zeroValueTxs(txs) == SelectSeq(txs, LAMBDA tx : parseInt(tx.value) = 0)

\* the body of calculateRiskScore with its five ifs chained by else: only
\* the first rule that fires contributes
ruleEngineWithFirstMatch(registry, addr, txs, t) ==
    LET fake    == fakeTokenTxs(txs)
        small   == smallInbound(addr, txs, t)
        inbound == inboundTxs(addr, txs)
        rule1   == Len(fake) > 0
        rule2   == ~rule1 /\ Len(small) > 5
        rule3   == ~rule1 /\ ~rule2 /\ rapidTxCount(txs) > 5
        rule4   == /\ ~rule1 /\ ~rule2 /\ ~rule3
                   /\ Cardinality(uniqueSenders(inbound)) > 15
                   /\ 2 * Len(knownExchangeInteractions(registry, inbound))
                         < Len(inbound)
        rule5   == /\ ~rule1 /\ ~rule2 /\ ~rule3 /\ ~rule4
                   /\ Len(zeroValueTxs(txs)) > 3
    IN  [risk    |-> IF rule1 THEN 100 ELSE IF rule2 THEN 20
                     ELSE IF rule3 THEN 15 ELSE IF rule4 THEN 25
                     ELSE IF rule5 THEN 10 ELSE 0,
         matches |->
            IF rule1
              THEN <<"INTERACTED WITH FAKE USDT TOKEN! Found "
                        \o ToString(Len(fake))
                        \o " txs involving impostor contracts.">>
            ELSE IF rule2
              THEN <<"Potential Dusting/Phishing Spam Detected ("
                        \o ToString(Len(small)) \o " tiny inbound txs)">>
            ELSE IF rule3
              THEN <<"Bot-like High Frequency Activity Detected">>
            ELSE IF rule4
              THEN <<"High Fan-In Pattern (Potential Mule/Laundering Account)">>
            ELSE IF rule5
              THEN <<"Multiple Zero-Value Transactions (Signature of \"Fake Transfer\" Phishing)">>
            ELSE <<>>,
         suspiciousWallets |->
            IF rule1
              THEN PushEachUnique(<<>>, Map(fake, LAMBDA tx : tx.token_info.address))
            ELSE IF rule2
              THEN PushEachUnique(<<>>, Slice0(Map(small, LAMBDA tx : tx.from), 3))
            ELSE <<>>]

\* the body of calculateRiskScore, built with the registry `registry`: the
\* locals risk, matches and suspiciousWallets when it reaches its return
\* statement
ruleEngineWith(registry, addr, txs, t) ==
    LET fake    == fakeTokenTxs(txs)
        small   == smallInbound(addr, txs, t)
        rapid   == rapidTxCount(txs)
        inbound == inboundTxs(addr, txs)
        senders == uniqueSenders(inbound)
        known   == knownExchangeInteractions(registry, inbound)
        zero    == zeroValueTxs(txs)
        rule1   == Len(fake) > 0
        rule2   == Len(small) > 5
        rule3   == rapid > 5
        rule4   == Cardinality(senders) > 15 /\ 2 * Len(known) < Len(inbound)
        rule5   == Len(zero) > 3
        wallets1 ==
            IF rule1
            THEN PushEachUnique(<<>>, Map(fake, LAMBDA tx : tx.token_info.address))
            ELSE <<>>
        wallets2 ==
            IF rule2
            THEN PushEachUnique(wallets1, Slice0(Map(small, LAMBDA tx : tx.from), 3))
            ELSE wallets1
    IN  [risk    |->   (IF rule1 THEN 100 ELSE 0) + (IF rule2 THEN 20 ELSE 0)
                     + (IF rule3 THEN 15 ELSE 0) + (IF rule4 THEN 25 ELSE 0)
                     + (IF rule5 THEN 10 ELSE 0),
         matches |->
               (IF rule1
                  THEN <<"INTERACTED WITH FAKE USDT TOKEN! Found "
                            \o ToString(Len(fake))
                            \o " txs involving impostor contracts.">>
                  ELSE <<>>)
            \o (IF rule2
                  THEN <<"Potential Dusting/Phishing Spam Detected ("
                            \o ToString(Len(small)) \o " tiny inbound txs)">>
                  ELSE <<>>)
            \o (IF rule3
                  THEN <<"Bot-like High Frequency Activity Detected">>
                  ELSE <<>>)
            \o (IF rule4
                  THEN <<"High Fan-In Pattern (Potential Mule/Laundering Account)">>
                  ELSE <<>>)
            \o (IF rule5
                  THEN <<"Multiple Zero-Value Transactions (Signature of \"Fake Transfer\" Phishing)">>
                  ELSE <<>>),
         suspiciousWallets |-> wallets2]

\* the body of calculateRiskScore with the module's KNOWN_EXCHANGES
ruleEngine(addr, txs, t) == ruleEngineWith(KNOWN_EXCHANGES, addr, txs, t)

\* the score returned without Math.min
clampScoreMissing(risk) == risk

\* score: Math.min(risk, 100)
clampScore(risk) == Min(risk, 100)

calculateRiskScore(addr, txs, t) ==
    LET e == ruleEngine(addr, txs, t)
    IN  [score             |-> clampScore(e.risk),
         matches           |-> e.matches,
         suspiciousWallets |-> e.suspiciousWallets]

\* the level chosen with > in place of >=
riskLevelOfStrict(score) ==
    IF score > 80 THEN "CRITICAL"
    ELSE IF score > 50 THEN "HIGH"
    ELSE IF score > 20 THEN "MEDIUM"
    ELSE IF score > 0 THEN "LOW"
    ELSE "SAFE"

\* the level chosen with CRITICAL starting at 70
riskLevelOfCriticalAt70(score) ==
    IF score >= 70 THEN "CRITICAL"
    ELSE IF score >= 50 THEN "HIGH"
    ELSE IF score >= 20 THEN "MEDIUM"
    ELSE IF score > 0 THEN "LOW"
    ELSE "SAFE"

\* the level chosen without the initial RiskLevel.SAFE
riskLevelOfNoSafe(score) ==
    IF score >= 80 THEN "CRITICAL"
    ELSE IF score >= 50 THEN "HIGH"
    ELSE IF score >= 20 THEN "MEDIUM"
    ELSE "LOW"

\* analyzeTronRisk: the level chosen from the score
riskLevelOf(score) ==
    IF score >= 80 THEN "CRITICAL"
    ELSE IF score >= 50 THEN "HIGH"
    ELSE IF score >= 20 THEN "MEDIUM"
    ELSE IF score > 0 THEN "LOW"
    ELSE "SAFE"

-----------------------------------------------------------------------------
(* tronService.ts: the public Transaction shape and analyzeTronRisk *)

\* (parseInt(tx.value) / Math.pow(10, decimals)).toFixed(2): the amount
\* rounded to hundredths of a token (decimals >= 4 in the model)
toFixed2(raw, decimals) ==
    LET q == Pow10(decimals) \div 10000
    IN  IF raw >= 0 THEN (raw + (q \div 2)) \div q
        ELSE 0 - (((0 - raw) + (q \div 2)) \div q)

\* new Date(ms).toISOString() and new Date(iso).getTime()
toISOString(ts) == [iso |-> ts]

getTime(str) == str.iso

\* fetchTronTransactions: TronGridTx -> Transaction
toTransaction(tx) ==
    [hash      |-> tx.transaction_id,
     from      |-> tx.from,
     to        |-> tx.to,
     value     |-> [cents |-> toFixed2(parseInt(tx.value), tx.token_info.decimals)],
     timestamp |-> toISOString(tx.block_timestamp),
     type      |-> "Transfer",
     asset     |-> IF tx.token_info.symbol = "" THEN "Unknown"
                   ELSE tx.token_info.symbol]

\* fetchTronTransactions when TronGrid answers with data.data = txs
fetchTronTransactions(txs) == Map(txs, toTransaction)

\* (parseFloat(t.value) * 1e6).toString(): hundredths of a token back to
\* amount units (exact: the product of a 2-decimal display value below 2.01
\* with 1e6 is an integer, and above it parseInt drops what the product adds)
mappedValue(value) == [i |-> value.cents * 100, f |-> 0]

\* the mapping with the official contract assumed for every spelling of
\* the symbol USDT
mapForRulesCaseBlind(t) ==
    [transaction_id  |-> t.hash,
     block_timestamp |-> getTime(t.timestamp),
     from            |-> t.from,
     to              |-> t.to,
     value           |-> mappedValue(t.value),
     type            |-> "Transfer",
     token_info      |-> [symbol   |-> t.asset,
                          address  |-> IF toUpperCase(t.asset) = "USDT"
                                       THEN USDT_CONTRACT
                                       ELSE "UNKNOWN_CONTRACT",
                          decimals |-> 6]]

\* analyzeTronRisk: Transaction -> TronGridTx
mapForRules(t) ==
    [transaction_id  |-> t.hash,
     block_timestamp |-> getTime(t.timestamp),
     from            |-> t.from,
     to              |-> t.to,
     value           |-> mappedValue(t.value),
     type            |-> "Transfer",
     token_info      |-> [symbol   |-> t.asset,
                          address  |-> IF t.asset = "USDT" THEN USDT_CONTRACT
                                       ELSE "UNKNOWN_CONTRACT",
                          decimals |-> 6]]

analyzeTronRisk(addr, transactions, t) ==
    LET r == calculateRiskScore(addr, Map(transactions, mapForRules), t)
    IN  [riskScore              |-> r.score,
         riskLevel              |-> riskLevelOf(r.score),
         suspiciousWalletsFound |-> r.suspiciousWallets,
         ruleMatches            |-> r.matches]

-----------------------------------------------------------------------------
(* mockBlockchain: fetchMockTransactions and fetchMockWalletProfile.       *)
(* Math.random() decides, for each of the 12 slots the scenarios leave     *)
(* free, the direction and the value; the outcomes of the model are: the   *)
(* first nIn free slots are inbound, and every random value is `cents`.    *)

MockFreeSlots == {5, 6, 7, 9, 10, 11, 13, 14, 15, 17, 18, 19}

MockTx(wallet, i, nIn, cents, t) ==
    LET rank       == Cardinality({j \in MockFreeSlots : j < i})
        isOutbound == IF i < 5 THEN FALSE
                      ELSE IF i \in {8, 16} THEN TRUE
                      ELSE ~(rank < nIn)
        rnd        == "TM" \o ToString(i)
    IN  [hash      |-> "m" \o ToString(i),
         from      |-> IF isOutbound THEN wallet ELSE rnd,
         to        |-> IF i = 8 THEN "TX9Q...PigButcheringScam"
                       ELSE IF i = 12 THEN "TA" \o ToString(i)
                       ELSE IF i = 16 THEN "T...FakeWithdrawal"
                       ELSE IF isOutbound THEN rnd ELSE wallet,
         value     |-> [cents |-> IF i < 5 THEN 50
                                  ELSE IF i = 8 THEN 500000
                                  ELSE IF i = 12 THEN 0
                                  ELSE IF i = 16 THEN 5000
                                  ELSE cents],
         timestamp |-> toISOString(t - i * 7200),
         type      |-> IF i = 12 THEN "Approval"
                       ELSE IF i = 16 THEN "Contract Interaction"
                       ELSE "Transfer",
         asset     |-> "USDT"]

fetchMockTransactions(wallet, nIn, cents, t) ==
    [i \in 1..20 |-> MockTx(wallet, i - 1, nIn, cents, t)]

fetchMockWalletProfile(addr) ==
    [address |-> addr, balance |-> "14250.50", txCount |-> 89]

\* fetchTronWalletProfile, for an account TronGrid knows or not
fetchTronWalletProfile(addr) ==
    [address |-> addr, balance |-> "0.00", txCount |-> 0]

-----------------------------------------------------------------------------
(* geminiService.ts *)

\* a || d for an optional number, string or array of the parsed response
OrNumber(opt, d) == IF opt = None \/ opt[1] = 0 THEN d ELSE opt[1]

OrString(opt, d) == IF opt = None \/ opt[1] = "" THEN d ELSE opt[1]

OrArray(opt, d) == IF opt = None THEN d ELSE opt[1]

mapRiskLevel(level) ==
    LET up == IF level = None THEN "" ELSE toUpperCase(level[1])
    IN  IF up \in {"CRITICAL", "HIGH", "MEDIUM", "LOW"} THEN up ELSE "SAFE"

\* arr.join(', ')
RECURSIVE join(_)
join(arr) ==
    IF arr = <<>> THEN ""
    ELSE IF Len(arr) = 1 THEN arr[1]
    ELSE arr[1] \o ", " \o join(Tail(arr))

\* the lookup returning the last record with the hash, not the first
findAnalysisLast(result, tx) ==
    LET ats  == OrArray(result.analyzedTransactions, <<>>)
        hits == {i \in 1..Len(ats) : ats[i].hash = tx.hash}
    IN  IF hits = {} THEN None
        ELSE Some(ats[CHOOSE i \in hits : \A j \in hits : i >= j])

\* result.analyzedTransactions?.find(at => at.hash === tx.hash)
findAnalysis(result, tx) ==
    LET ats  == OrArray(result.analyzedTransactions, <<>>)
        hits == {i \in 1..Len(ats) : ats[i].hash = tx.hash}
    IN  IF hits = {} THEN None
        ELSE Some(ats[CHOOSE i \in hits : \A j \in hits : i <= j])

\* the transactions sent with the request, without slice(0, 30)
txContextWhole(transactions) ==
    Map(transactions,
        LAMBDA t : [hash |-> t.hash, type |-> t.type, from |-> t.from,
                    to |-> t.to, value |-> t.value, asset |-> t.asset])

\* the transactions sent with the request: transactions.slice(0, 30).map(...)
txContext(transactions) ==
    Map(Slice0(transactions, 30),
        LAMBDA t : [hash |-> t.hash, type |-> t.type, from |-> t.from,
                    to |-> t.to, value |-> t.value, asset |-> t.asset])

\* what generateContent is called with: the wallet named in the prompt, the
\* rules listed in rulesContext (none when heuristicRules is empty) and the
\* transaction data
geminiRequest(transactions, walletAddress, heuristicRules) ==
    [walletAddress |-> walletAddress,
     rulesContext  |-> IF Len(heuristicRules) > 0 THEN Some(heuristicRules)
                       ELSE None,
     txContext     |-> txContext(transactions)]

\* the value returned after a response was received and parsed
geminiResult(transactions, heuristicRules, result) ==
    [riskScore |-> OrNumber(result.riskScore, 0),
     riskLevel |-> mapRiskLevel(result.riskLevel),
     summary   |-> OrString(result.summary, "No analysis available."),
     suspiciousWalletsFound |-> OrArray(result.suspiciousWalletsFound, <<>>),
     analyzedTransactions |->
        Map(transactions, LAMBDA tx :
            LET a == findAnalysis(result, tx)
            IN  tx @@
                [aiRiskLabel |-> IF a = None THEN "Normal"
                                 ELSE OrString(a[1].aiRiskLabel, "Normal"),
                 aiRiskScore |-> IF a = None THEN 0
                                 ELSE OrNumber(a[1].aiRiskScore, 0),
                 aiReasoning |-> IF a = None THEN "Standard transaction."
                                 ELSE OrString(a[1].aiReasoning,
                                               "Standard transaction.")]),
     ruleMatches |-> heuristicRules]

\* the value returned by the catch block
geminiFallback(transactions, heuristicRules) ==
    [riskScore |-> 0,
     riskLevel |-> "LOW",
     summary   |-> "AI Analysis unavailable. Heuristic rules triggered: "
                    \o (IF join(heuristicRules) = "" THEN "None"
                        ELSE join(heuristicRules)),
     suspiciousWalletsFound |-> <<>>,
     analyzedTransactions |->
        Map(transactions, LAMBDA tx :
            tx @@ [aiRiskLabel |-> "Unanalyzed", aiRiskScore |-> 0,
                   aiReasoning |-> "AI Error"]),
     ruleMatches |-> heuristicRules]

\* analyzeTransactionsWithGemini with a catch block that throws again
analyzeTransactionsWithGeminiRethrows(transactions, heuristicRules, outcome) ==
    IF outcome.ok
    THEN [threw |-> FALSE,
          value |-> geminiResult(transactions, heuristicRules, outcome.result)]
    ELSE [threw |-> TRUE, value |-> Null]

\* analyzeTransactionsWithGemini, given what happens to the request:
\* outcome.ok with the parsed response, or an error raised at outcome.stage.
\* The promise is settled with `value`, or rejected when `threw`.
analyzeTransactionsWithGemini(transactions, heuristicRules, outcome) ==
    IF outcome.ok
    THEN [threw |-> FALSE,
          value |-> geminiResult(transactions, heuristicRules, outcome.result)]
    ELSE [threw |-> FALSE,
          value |-> geminiFallback(transactions, heuristicRules)]

-----------------------------------------------------------------------------
(* App: handleSearch *)

\* a union that compares addresses ignoring case
foldCase(a) == IF a = "Ts1" THEN "TS1" ELSE a

RECURSIVE PushEachUniqueIgnoringCase(_, _)
PushEachUniqueIgnoringCase(arr, items) ==
    IF items = <<>> THEN arr
    ELSE PushEachUniqueIgnoringCase(
            IF foldCase(Head(items)) \in {foldCase(x) : x \in Range(arr)}
            THEN arr ELSE Append(arr, Head(items)),
            Tail(items))

ArrayFromSetIgnoringCase(items) == PushEachUniqueIgnoringCase(<<>>, items)

\* Array.from(new Set(items))
ArrayFromSet(items) == PushEachUnique(<<>>, items)

\* the two scores averaged
fusedScoreAverage(aiScore, heuristicScore) == (aiScore + heuristicScore) \div 2

\* Math.max(aiResult.riskScore, heuristicResult.riskScore || 0)
fusedScore(aiScore, heuristicScore) == Max(aiScore, heuristicScore)

\* finalAnalysis with the external narrative appended to the findings
finalAnalysisWithNarrative(aiResult, heuristicResult, rulesTriggered) ==
    [riskScore |-> fusedScore(aiResult.riskScore, heuristicResult.riskScore),
     riskLevel |-> aiResult.riskLevel,
     summary   |-> aiResult.summary,
     suspiciousWalletsFound |->
        ArrayFromSet(aiResult.suspiciousWalletsFound
                        \o heuristicResult.suspiciousWalletsFound),
     analyzedTransactions |-> aiResult.analyzedTransactions,
     ruleMatches |-> Append(rulesTriggered, aiResult.summary)]

\* finalAnalysis = {...aiResult, riskScore, suspiciousWalletsFound, ruleMatches}
finalAnalysis(aiResult, heuristicResult, rulesTriggered) ==
    [riskScore |-> fusedScore(aiResult.riskScore, heuristicResult.riskScore),
     riskLevel |-> aiResult.riskLevel,
     summary   |-> aiResult.summary,
     suspiciousWalletsFound |->
        ArrayFromSet(aiResult.suspiciousWalletsFound
                        \o heuristicResult.suspiciousWalletsFound),
     analyzedTransactions |-> aiResult.analyzedTransactions,
     ruleMatches |-> rulesTriggered]

\* address.startsWith('T') and address.length, for the inputs of the model
startsWithT(a) ==
    a \in {"TShort", "TWa11etWa11etWa11etWa11etWa11etWa1",
            "TWa22etWa22etWa22etWa22etWa22etWa2"}

length(a) ==
    CASE a = ""       -> 0
      [] a = "TShort" -> 6
      [] OTHER        -> 34

-----------------------------------------------------------------------------
(* The histories the data source can hand over: bursts of transactions of  *)
(* one kind each.  A kind fixes direction, sender pattern, value, token and *)
(* the time gap to the previous transaction.                               *)

\* the wallet under analysis in the histories of the model (T + 33 characters)
Wallet == "TWa11etWa11etWa11etWa11etWa11etWa1"

\* another address the user can search for
Wallet2 == "TWa22etWa22etWa22etWa22etWa22etWa2"

\* Date.now() at the first evaluation, in seconds
Now0 == 5000000

FakeContract1 == "TFakeUsdtContractNumberOne11111111"

FakeContract2 == "TFakeUsdtContractNumberTwo22222222"

ExchangeSeq ==
    <<"TN9RRaX5H7J4u55rKk5yQe5M5n4C3b5y5",
      "TMuA6YqfCeX8EhbfYEg5y7S4DqzSJireY9",
      "TV6MuMXfmLbBqePp9yrhMH2aFhqbKX4T54",
      "TTk9j6K8p2T6c7W9E3y5L7b8J4b8L4b8L",
      "TYDzsYUEpvnYmQk4zGP9sWWcTEd2MiAtW6",
      "TAnz5363F694F16532457496666666666">>

Kind(inbound, sender, value, old, gap, symbol, contract) ==
    [inbound |-> inbound, sender |-> sender, value |-> value, old |-> old,
     gap |-> gap, symbol |-> symbol, contract |-> contract]

KindDef ==
    [plain  |-> Kind(FALSE, "fresh", 50000, FALSE, 7200, "usdc",   FakeContract1),
     dust   |-> Kind(TRUE,  "fresh", 500,   FALSE, 7200, "USDT",   USDT_CONTRACT),
     spam   |-> Kind(TRUE,  "same",  0,     FALSE, 3,    "USDT",   USDT_CONTRACT),
     burst  |-> Kind(TRUE,  "fresh", 0,     TRUE,  3,    "USDT",   USDT_CONTRACT),
     fake   |-> Kind(TRUE,  "fresh", 0,     FALSE, 3,    "usdt",   FakeContract1),
     tether |-> Kind(FALSE, "fresh", 1000,  FALSE, 10,   "Tether", FakeContract2),
     exch   |-> Kind(TRUE,  "exch",  1000,  FALSE, 7200, "USDT",   USDT_CONTRACT),
     micro  |-> Kind(TRUE,  "fresh", 10,    FALSE, 7200, "USDT",   USDT_CONTRACT),
     neg    |-> Kind(TRUE,  "fresh", 0 - 500, FALSE, 7200, "USDT", USDT_CONTRACT),
     exdust |-> Kind(TRUE,  "exch",  500,   FALSE, 7200, "USDT",   USDT_CONTRACT),
     clone  |-> Kind(TRUE,  "fresh", 50000, FALSE, 7200, "USDT",   FakeContract2)]

\* the kinds of the histories given to calculateRiskScore directly
Kinds == {"plain", "dust", "spam", "burst", "fake", "tether"}

\* the kinds of the transactions TronGrid can answer with: also transfers
\* sent by the known exchanges, amounts below half a hundredth of a token,
\* negative amounts, and a token that spells its symbol exactly as the
\* official one does
FetchKinds == Kinds \cup {"exch", "micro", "neg", "clone"}

\* the kinds of the inbound histories of SpecFanIn
FanInKinds == {"dust", "exch", "exdust"}

\* the i-th transaction of a history, of kind k, the previous one being at
\* time prevBase (before the 40 days an old transaction is shifted by)
MakeTx(i, k, prevBase) ==
    LET d     == KindDef[k]
        other == "TS" \o ToString(i)
        from  == IF ~d.inbound THEN Wallet
                 ELSE IF d.sender = "fresh" THEN other
                 ELSE IF d.sender = "exch" THEN ExchangeSeq[((i - 1) % 6) + 1]
                 ELSE "TSpammerSpammerSpammerSpammer11111"
    IN  [transaction_id  |-> "h" \o ToString(i),
         block_timestamp |-> (prevBase - d.gap) - (IF d.old THEN 40 * 86400 ELSE 0),
         from            |-> from,
         to              |-> IF d.inbound THEN Wallet ELSE other,
         value           |-> [i |-> d.value, f |-> 0],
         type            |-> "Transfer",
         token_info      |-> [symbol |-> d.symbol, address |-> d.contract,
                              decimals |-> 6]]

\* the kind of the last burst of a history ("" when it has none)
LastKind(kinds) == IF kinds = <<>> THEN "" ELSE kinds[Len(kinds)]

\* the time of the last transaction of a history, before the shift of an old one
LastBase(txs, kinds) ==
    IF txs = <<>> THEN Now0
    ELSE txs[Len(txs)].block_timestamp
            + (IF KindDef[LastKind(kinds)].old THEN 40 * 86400 ELSE 0)

\* a burst of n transactions of kind k appended to a history: each one
\* follows the one before it at the gap of its kind
Burst(txs, kinds, k, n) ==
    txs \o [j \in 1..n |->
              MakeTx(Len(txs) + j, k,
                     LastBase(txs, kinds) - (j - 1) * KindDef[k].gap)]

-----------------------------------------------------------------------------
(* SpecEngine: calculateRiskScore applied to every history of at most      *)
(* MaxRuns bursts and MaxTxs transactions.                                 *)

uiIdle ==
    /\ address = ""
    /\ loading = FALSE
    /\ profile = Null
    /\ analysis = Null
    /\ error = ""
    /\ isDemoMode = FALSE
    /\ pc = "idle"
    /\ local = Null

EngineInit ==
    /\ uiIdle
    /\ rawTxs = <<>>
    /\ shape = <<>>
    /\ now = Now0
    /\ calc = calculateRiskScore(Wallet, <<>>, Now0)

\* the data source delivers one more transaction, of kind k, and
\* calculateRiskScore(address, transactions) is called on the history
Analyze(k) ==
    /\ Len(rawTxs) < MaxTxs
    /\ IF LastKind(shape) = k
         THEN shape' = shape
         ELSE Len(shape) < MaxRuns /\ shape' = Append(shape, k)
    /\ rawTxs' = Burst(rawTxs, shape, k, 1)
    /\ calc' = calculateRiskScore(Wallet, rawTxs', now)
    /\ UNCHANGED now
    /\ UNCHANGED uiVars

\* a second call with risk, matches and suspiciousWallets declared outside
\* the function, so that they survive from the call before
ReanalyzeSharedLocals ==
    /\ calc' =
          LET e == ruleEngine(Wallet, rawTxs, now)
          IN  [score             |-> clampScore(calc.score + e.risk),
               matches           |-> calc.matches \o e.matches,
               suspiciousWallets |->
                    PushEachUnique(calc.suspiciousWallets, e.suspiciousWallets)]
    /\ UNCHANGED <<rawTxs, shape, now>>
    /\ UNCHANGED uiVars

\* calculateRiskScore(address, transactions) is called once more on the
\* same history
Reanalyze ==
    /\ calc' = calculateRiskScore(Wallet, rawTxs, now)
    /\ UNCHANGED <<rawTxs, shape, now>>
    /\ UNCHANGED uiVars

EngineNext ==
    \/ \E k \in Kinds : Analyze(k)
    \/ Reanalyze

SpecEngine == EngineInit /\ [][EngineNext]_vars

-----------------------------------------------------------------------------
(* SpecFanIn: calculateRiskScore applied to the inbound histories of at    *)
(* most MaxInbound transactions, sent by fresh addresses or by the known   *)
(* exchanges (some of them dust-sized), in at most MaxRuns bursts.         *)

\* the data source delivers one more inbound transaction, of kind k, and
\* calculateRiskScore(address, transactions) is called on the history
Receive(k) ==
    /\ Len(rawTxs) < MaxInbound
    /\ IF LastKind(shape) = k
         THEN shape' = shape
         ELSE Len(shape) < MaxRuns /\ shape' = Append(shape, k)
    /\ rawTxs' = Burst(rawTxs, shape, k, 1)
    /\ calc' = calculateRiskScore(Wallet, rawTxs', now)
    /\ UNCHANGED now
    /\ UNCHANGED uiVars

FanInNext == \E k \in FanInKinds : Receive(k)

SpecFanIn == EngineInit /\ [][FanInNext]_vars

-----------------------------------------------------------------------------
(* Spec: the App, its search box and one handleSearch at a time (the       *)
(* submit button is disabled while loading).                               *)

\* what the user can type in the search box
AddressInputs ==
    {"", "0xNotATronAddressNotATronAddress12", Wallet}

\* the values Math.random() gives the mock's free slots, in hundredths
MockValues == {0, 5, 25000}

\* the parsed responses of the external service
ExtScores == {None, Some(0 - 5), Some(20), Some(90), Some(150)}

ExtLevels == {None, Some("critical"), Some("MEDIUM")}

\* summary, suspiciousWalletsFound and analyzedTransactions of a response
ExtDetails ==
    {[summary |-> None, suspiciousWalletsFound |-> None,
      analyzedTransactions |-> None],
     [summary |-> Some(""), suspiciousWalletsFound |-> Some(<<>>),
      analyzedTransactions |-> Some(<<>>)],
     [summary |-> Some("Funds funnel through unverified addresses."),
      suspiciousWalletsFound |->
        Some(<<"Ts1", "TS1", "TEvi1Evi1Evi1Evi1Evi1Evi1Evi1Evi1E", "Ts1">>),
      analyzedTransactions |->
        Some(<<[hash |-> "h2", aiRiskLabel |-> Some("Dusting"),
                aiRiskScore |-> Some(70), aiReasoning |-> None],
               [hash |-> "h2", aiRiskLabel |-> Some("Normal"),
                aiRiskScore |-> None, aiReasoning |-> Some("Repeat.")]>>)]}

ExtResults ==
    {[riskScore |-> sc, riskLevel |-> lv, summary |-> d.summary,
      suspiciousWalletsFound |-> d.suspiciousWalletsFound,
      analyzedTransactions |-> d.analyzedTransactions] :
        sc \in ExtScores, lv \in ExtLevels, d \in ExtDetails}

\* limit=50 of the TronGrid query: the length of a full page
FetchLimit == 50

\* the lengths of the histories TronGrid answers with
FetchSizes == (0..MaxTxs) \cup {FetchLimit}

\* the stages at which analyzeTransactionsWithGemini can raise an error
FailStages == {"build", "call", "parse"}

Init ==
    /\ uiIdle
    /\ rawTxs = <<>>
    /\ shape = <<>>
    /\ now = Now0
    /\ calc = Null

\* onChange of the search box
SetAddress(a) ==
    /\ address # a
    /\ address' = a
    /\ UNCHANGED <<loading, profile, analysis, error, isDemoMode, pc, local>>
    /\ UNCHANGED engineVars

\* onSubmit with a submit button that stays enabled while loading: a new
\* handleSearch starts whatever the one before is doing
HandleSearchWhileLoading ==
    /\ IF address = ""
         THEN UNCHANGED vars
         ELSE IF ~startsWithT(address) \/ length(address) # 34
         THEN /\ error' = "Invalid Tron address. Must start with \"T\" and be 34 characters."
              /\ UNCHANGED <<address, loading, profile, analysis, isDemoMode,
                             pc, local>>
              /\ UNCHANGED engineVars
         ELSE /\ loading' = TRUE
              /\ error' = ""
              /\ profile' = Null
              /\ analysis' = Null
              /\ isDemoMode' = FALSE
              /\ pc' = "fetch"
              /\ local' = [address |-> address]
              /\ UNCHANGED address
              /\ UNCHANGED engineVars

\* onSubmit: handleSearch up to its first await
HandleSearch ==
    /\ pc = "idle"
    /\ ~loading
    /\ IF address = ""
         THEN UNCHANGED vars
         ELSE IF ~startsWithT(address) \/ length(address) # 34
         THEN /\ error' = "Invalid Tron address. Must start with \"T\" and be 34 characters."
              /\ UNCHANGED <<address, loading, profile, analysis, isDemoMode,
                             pc, local>>
              /\ UNCHANGED engineVars
         ELSE /\ loading' = TRUE
              /\ error' = ""
              /\ profile' = Null
              /\ analysis' = Null
              /\ isDemoMode' = FALSE
              /\ pc' = "fetch"
              /\ local' = [address |-> address]
              /\ UNCHANGED address
              /\ UNCHANGED engineVars

\* lines 61-67: setProfile(walletProfile) and the call of analyzeTronRisk
StartAnalysis(transactions, walletProfile) ==
    /\ profile' = walletProfile
    /\ local' = [address         |-> local.address,
                 transactions    |-> transactions,
                 walletProfile   |-> walletProfile,
                 heuristicResult |->
                    analyzeTronRisk(local.address, transactions, now)]
    /\ pc' = "rules"

\* Promise.all resolves: TronGrid answered with n transactions of kind k
FetchResolved(k, n) ==
    /\ pc = "fetch"
    /\ rawTxs' = Burst(<<>>, <<>>, k, n)
    /\ shape' = IF n = 0 THEN <<>> ELSE <<k>>
    /\ StartAnalysis(fetchTronTransactions(rawTxs'),
                     fetchTronWalletProfile(local.address))
    /\ UNCHANGED <<address, loading, analysis, error, isDemoMode, now, calc>>

\* Promise.all rejects: fall back to the mock data and wait 800 ms
FetchRejected(nIn, cents) ==
    /\ pc = "fetch"
    /\ isDemoMode' = TRUE
    /\ local' = [address       |-> local.address,
                 transactions  |-> fetchMockTransactions(local.address, nIn, cents, now),
                 walletProfile |-> fetchMockWalletProfile(local.address)]
    /\ pc' = "mock"
    /\ rawTxs' = <<>>
    /\ shape' = <<>>
    /\ UNCHANGED <<address, loading, profile, analysis, error, now, calc>>

\* the 800 ms timer of the fallback fires
MockDelayElapsed ==
    /\ pc = "mock"
    /\ StartAnalysis(local.transactions, local.walletProfile)
    /\ UNCHANGED <<address, loading, analysis, error, isDemoMode>>
    /\ UNCHANGED engineVars

\* lines 71-94, once analyzeTransactionsWithGemini has settled with aiRet
Finish(outcome, aiRet) ==
    /\ local' = [outcome |-> outcome] @@ local
    /\ IF aiRet.threw
         THEN /\ error' = "Analysis failed. Please check your configuration."
              /\ UNCHANGED analysis
         ELSE /\ analysis' = finalAnalysis(aiRet.value, local.heuristicResult,
                                           local.heuristicResult.ruleMatches)
              /\ UNCHANGED error
    /\ loading' = FALSE
    /\ pc' = "idle"
    /\ UNCHANGED <<address, profile, isDemoMode>>
    /\ UNCHANGED engineVars

\* line 71: analyzeTransactionsWithGemini is called; it builds the client
\* and the prompt and, unless that raises, sends the request
StartGemini(buildOk) ==
    /\ pc = "rules"
    /\ IF buildOk
         THEN /\ local' = [outcome |-> Null,
                          request |-> geminiRequest(local.transactions,
                                        local.address,
                                        local.heuristicResult.ruleMatches)]
                            @@ local
              /\ pc' = "gemini"
              /\ UNCHANGED <<address, loading, profile, analysis, error, isDemoMode>>
              /\ UNCHANGED engineVars
         ELSE LET outcome == [ok |-> FALSE, stage |-> "build"]
              IN  Finish(outcome,
                         analyzeTransactionsWithGemini(local.transactions,
                            local.heuristicResult.ruleMatches, outcome))

\* the service answers and the response text parses to `result`
GeminiResolved(result) ==
    /\ pc = "gemini"
    /\ LET outcome == [ok |-> TRUE, result |-> result]
       IN  Finish(outcome,
                  analyzeTransactionsWithGemini(local.transactions,
                     local.heuristicResult.ruleMatches, outcome))

\* the call is rejected, or the response text does not parse
GeminiFailed(stage) ==
    /\ pc = "gemini"
    /\ stage # "build"
    /\ LET outcome == [ok |-> FALSE, stage |-> stage]
       IN  Finish(outcome,
                  analyzeTransactionsWithGemini(local.transactions,
                     local.heuristicResult.ruleMatches, outcome))

Next ==
    \/ \E a \in AddressInputs : SetAddress(a)
    \/ HandleSearch
    \/ \E k \in FetchKinds, n \in FetchSizes : FetchResolved(k, n)
    \/ \E nIn \in 0..Cardinality(MockFreeSlots), cents \in MockValues :
            FetchRejected(nIn, cents)
    \/ MockDelayElapsed
    \/ \E buildOk \in BOOLEAN : StartGemini(buildOk)
    \/ \E result \in ExtResults : GeminiResolved(result)
    \/ \E stage \in FailStages : GeminiFailed(stage)

Spec == Init /\ [][Next]_vars

-----------------------------------------------------------------------------
(* SpecLive: the App on a few data, with the steps it takes by itself      *)
(* taken eventually.                                                       *)

\* the addresses typed, the TronGrid answers, the mock values and the
\* responses of SpecLive
LiveAddresses == AddressInputs \cup {Wallet2}

LiveKinds == {"dust", "fake"}

LiveSizes == {0, 6}

LiveResults == {r \in ExtResults : r.riskLevel = None /\ r.summary = None}

\* the two fetches of Promise.all settle, one way or the other
FetchSettles ==
    \/ \E k \in LiveKinds, n \in LiveSizes : FetchResolved(k, n)
    \/ \E cents \in MockValues : FetchRejected(0, cents)

\* line 71 is reached once analyzeTronRisk has returned
GeminiCalled == \E buildOk \in BOOLEAN : StartGemini(buildOk)

LiveNext ==
    \/ \E a \in LiveAddresses : SetAddress(a)
    \/ HandleSearch
    \/ FetchSettles
    \/ MockDelayElapsed
    \/ GeminiCalled
    \/ \E result \in LiveResults : GeminiResolved(result)
    \/ \E stage \in FailStages : GeminiFailed(stage)

\* the fetches of TronGrid settle, the 800 ms timer fires and the
\* continuation of a settled await runs.  Nothing obliges generateContent
\* to settle: the call is awaited without a timeout or an abort signal.
SpecLive ==
    /\ Init /\ [][LiveNext]_vars
    /\ WF_vars(FetchSettles)
    /\ WF_vars(MockDelayElapsed)
    /\ WF_vars(GeminiCalled)

-----------------------------------------------------------------------------
(* Vocabulary of the properties *)

\* a handleSearch has run to its end and its locals are still there
Finished ==
    /\ pc = "idle"
    /\ local # Null
    /\ "outcome" \in DOMAIN local
    /\ local.outcome # Null

\* ... and the external assessment answered
Succeeded == Finished /\ local.outcome.ok

\* ... and the external assessment failed
Degraded == Finished /\ ~local.outcome.ok

\* the level the documented thresholds give a score
ThresholdLevel(score) ==
    CASE score >= 80 -> "CRITICAL"
      [] score >= 50 /\ score < 80 -> "HIGH"
      [] score >= 20 /\ score < 50 -> "MEDIUM"
      [] score > 0 /\ score < 20 -> "LOW"
      [] OTHER -> "SAFE"

\* the score the external source returned (0 when it returned none)
ExternalScore ==
    IF local.outcome.result.riskScore = None THEN 0
    ELSE local.outcome.result.riskScore[1]

\* the addresses the external source flagged
ExternalWallets ==
    IF ~local.outcome.ok \/ local.outcome.result.suspiciousWalletsFound = None
    THEN <<>>
    ELSE local.outcome.result.suspiciousWalletsFound[1]

\* the position of the first occurrence of x in s
FirstIndex(s, x) == CHOOSE i \in 1..Len(s) : s[i] = x /\ \A j \in 1..(i - 1) : s[j] # x

\* the spellings of the protected symbols
ProtectedSpellings == {"USDT", "usdt", "UsDt", "TETHER", "Tether", "tether"}

\* the rules, stated over the positions of a history m
ImpostorIdx(m) ==
    {i \in 1..Len(m) : /\ m[i].token_info.symbol \in ProtectedSpellings
                       /\ m[i].token_info.address # USDT_CONTRACT}

DustIdx(a, m, t) ==
    {i \in 1..Len(m) : /\ m[i].to = a
                       /\ m[i].value.i < Pow10(m[i].token_info.decimals) \div 1000
                       /\ t - m[i].block_timestamp < 30 * 86400}

RapidIdx(m) ==
    {i \in 1..(Len(m) - 1) :
        /\ m[i].block_timestamp - m[i + 1].block_timestamp < 10
        /\ m[i + 1].block_timestamp - m[i].block_timestamp < 10}

InboundIdx(a, m) == {i \in 1..Len(m) : m[i].to = a}

FanIn(a, m) ==
    /\ Cardinality({m[i].from : i \in InboundIdx(a, m)}) >= 16
    /\ 2 * Cardinality({i \in InboundIdx(a, m) : m[i].from \in KNOWN_EXCHANGES})
          < Cardinality(InboundIdx(a, m))

ZeroIdx(m) == {i \in 1..Len(m) : m[i].value.i = 0}

ImpostorText(n) ==
    "INTERACTED WITH FAKE USDT TOKEN! Found " \o ToString(n)
        \o " txs involving impostor contracts."

DustText(n) ==
    "Potential Dusting/Phishing Spam Detected (" \o ToString(n)
        \o " tiny inbound txs)"

\* one finding per rule that fires, in the order impostor, dust,
\* bot-frequency, fan-in, zero-value
ExpectedFindings(a, m, t) ==
       (IF ImpostorIdx(m) # {}
          THEN <<ImpostorText(Cardinality(ImpostorIdx(m)))>> ELSE <<>>)
    \o (IF Cardinality(DustIdx(a, m, t)) >= 6
          THEN <<DustText(Cardinality(DustIdx(a, m, t)))>> ELSE <<>>)
    \o (IF Cardinality(RapidIdx(m)) >= 6
          THEN <<"Bot-like High Frequency Activity Detected">> ELSE <<>>)
    \o (IF FanIn(a, m)
          THEN <<"High Fan-In Pattern (Potential Mule/Laundering Account)">>
          ELSE <<>>)
    \o (IF Cardinality(ZeroIdx(m)) >= 4
          THEN <<"Multiple Zero-Value Transactions (Signature of \"Fake Transfer\" Phishing)">>
          ELSE <<>>)

BotText == "Bot-like High Frequency Activity Detected"

FanInText == "High Fan-In Pattern (Potential Mule/Laundering Account)"

ZeroText == "Multiple Zero-Value Transactions (Signature of \"Fake Transfer\" Phishing)"

\* which rules fire on the history m of address a at time t
RuleFires(a, m, t) ==
    [impostor |-> ImpostorIdx(m) # {},
     dust     |-> Cardinality(DustIdx(a, m, t)) >= 6,
     bot      |-> Cardinality(RapidIdx(m)) >= 6,
     fanin    |-> FanIn(a, m),
     zero     |-> Cardinality(ZeroIdx(m)) >= 4]

\* the documented weights
Weight == [impostor |-> 100, dust |-> 20, bot |-> 15, fanin |-> 25, zero |-> 10]

\* the sum of the weights of the rules of the set S that fire
RECURSIVE SumWeights(_, _)
SumWeights(S, fires) ==
    IF S = {} THEN 0
    ELSE LET r == CHOOSE x \in S : TRUE
         IN  (IF fires[r] THEN Weight[r] ELSE 0) + SumWeights(S \ {r}, fires)

\* what the rule r adds to the sum calculateRiskScore accumulates
Contribution(r, a, m, t) ==
    ruleEngine(a, m, t).risk - SumWeights(DOMAIN Weight \ {r}, RuleFires(a, m, t))

\* the senders of the dust-sized transactions of m, in sequence order
RECURSIVE DustSenders(_, _, _)
DustSenders(a, m, t) ==
    IF m = <<>> THEN <<>>
    ELSE DustSenders(a, SubSeq(m, 1, Len(m) - 1), t)
            \o (IF Len(m) \in DustIdx(a, m, t) THEN <<m[Len(m)].from>> ELSE <<>>)

\* the first n distinct elements of s, in the order of their first occurrence
FirstDistinct(s, n) ==
    LET firsts == {i \in 1..Len(s) : \A j \in 1..(i - 1) : s[j] # s[i]}
        kept   == {i \in firsts : Cardinality({j \in firsts : j < i}) < n}
    IN  {s[i] : i \in kept}

Reverse(s) == [i \in 1..Len(s) |-> s[Len(s) + 1 - i]]

\* registries to compare: each is a set of addresses treated as known
Registries ==
    {{},
     {ExchangeSeq[1], ExchangeSeq[2], ExchangeSeq[3]},
     KNOWN_EXCHANGES,
     KNOWN_EXCHANGES \cup {"TS1", "TS2", "TS3"}}

-----------------------------------------------------------------------------
(* Properties *)

\* C1: after a successful external assessment the level of the stored
\* result is the threshold level of its (fused) score, whatever level the
\* external source returned.  The code keeps the level mapped from the
\* external level string, so this fails.
C1_LevelOfFusedScore ==
    Succeeded => analysis.riskLevel = ThresholdLevel(analysis.riskScore)

\* C2: when the external call fails the stored result has the local score,
\* the level of the local score and the local suspicious addresses.  The
\* code keeps the fallback's level LOW, so this fails.
C2_DegradedIsLocal ==
    Degraded =>
        /\ analysis.riskScore = local.heuristicResult.riskScore
        /\ analysis.riskLevel = ThresholdLevel(local.heuristicResult.riskScore)
        /\ analysis.suspiciousWalletsFound
                = local.heuristicResult.suspiciousWalletsFound

\* C3: a failure of the external assessment, at whatever stage, is not
\* surfaced: handleSearch ends with an analysis, loading off and no
\* "Analysis failed" error, and the summary says the analysis is unavailable
\* and lists the fired local rules, or "None".
C3_FailureAbsorbed ==
    Degraded =>
        /\ analysis # Null
        /\ ~loading
        /\ error # "Analysis failed. Please check your configuration."
        /\ analysis.summary =
              "AI Analysis unavailable. Heuristic rules triggered: "
                \o (IF local.heuristicResult.ruleMatches = <<>> THEN "None"
                    ELSE join(local.heuristicResult.ruleMatches))

C3_Witness ==
    /\ Degraded
    /\ local.outcome.stage = "parse"
    /\ Len(local.heuristicResult.ruleMatches) >= 2
    /\ analysis # Null

\* C4: after a successful external assessment the fused score is the larger
\* of the local and the external score: one of the two, and not below either.
C4_FusedScoreIsMax ==
    Succeeded =>
        /\ analysis.riskScore \in {local.heuristicResult.riskScore, ExternalScore}
        /\ analysis.riskScore >= local.heuristicResult.riskScore
        /\ analysis.riskScore >= ExternalScore

C4_Witness ==
    /\ Succeeded
    /\ local.heuristicResult.riskScore = 20
    /\ ExternalScore = 90
    /\ analysis.riskScore = 90

\* C5: the score of every stored result is within 0..100.  The code stores
\* an external score above 100 as it is, so this fails.
C5_FusedScoreInRange ==
    analysis # Null => analysis.riskScore \in 0..100

\* C6: the score calculateRiskScore returns is within 0..100, also when the
\* weights of the fired rules sum above 100, and is the sum of the weights
\* cut at 100; the sum is never negative.
C6_ScoreClamped ==
    LET risk == ruleEngine(Wallet, rawTxs, now).risk
    IN  /\ calc.score \in 0..100
        /\ risk >= 0
        /\ calc.score = IF risk > 100 THEN 100 ELSE risk

C6_Witness ==
    /\ ruleEngine(Wallet, rawTxs, now).risk = 170
    /\ calc.score = 100

\* C7: the suspicious addresses of the stored result are exactly those of
\* the external list and of the local list, each once, equal meaning equal
\* as strings, in the order of their first occurrence (external first).
C7_SuspiciousUnion ==
    (Finished /\ analysis # Null) =>
        LET all == ExternalWallets \o local.heuristicResult.suspiciousWalletsFound
            out == analysis.suspiciousWalletsFound
        IN  /\ Range(out) = Range(all)
            /\ \A i, j \in 1..Len(out) : i # j => out[i] # out[j]
            /\ \A i, j \in 1..Len(out) :
                    i < j => FirstIndex(all, out[i]) < FirstIndex(all, out[j])

C7_Witness ==
    /\ Succeeded
    /\ local.heuristicResult.suspiciousWalletsFound = <<"TS1", "TS2", "TS3">>
    /\ analysis.suspiciousWalletsFound
          = <<"Ts1", "TS1", "TEvi1Evi1Evi1Evi1Evi1Evi1Evi1Evi1E", "TS2", "TS3">>

\* C8: the findings of the stored result are the findings of the local
\* evaluation: one per fired rule, in the order impostor, dust,
\* bot-frequency, fan-in, zero-value, whether the external assessment
\* succeeded or failed.
C8_FindingsAreLocal ==
    (Finished /\ analysis # Null) =>
        /\ analysis.ruleMatches = local.heuristicResult.ruleMatches
        /\ analysis.ruleMatches =
              ExpectedFindings(local.address,
                               Map(local.transactions, mapForRules), now)

C8_Witness ==
    /\ Succeeded
    /\ local.outcome.result.summary # None
    /\ Len(analysis.ruleMatches) = 5
    /\ analysis.summary = "Funds funnel through unverified addresses."

\* C9: the level analyzeTronRisk returns is decided by its score:
\* CRITICAL iff score >= 80, HIGH iff 50 <= score < 80, MEDIUM iff
\* 20 <= score < 50, LOW iff 0 < score < 20, SAFE iff score = 0.
C9_LevelFromScore ==
    (local # Null /\ "heuristicResult" \in DOMAIN local) =>
        LET score == local.heuristicResult.riskScore
            level == local.heuristicResult.riskLevel
        IN  /\ level \in RiskLevel
            /\ (level = "CRITICAL") <=> (score >= 80)
            /\ (level = "HIGH") <=> (50 <= score /\ score < 80)
            /\ (level = "MEDIUM") <=> (20 <= score /\ score < 50)
            /\ (level = "LOW") <=> (0 < score /\ score < 20)
            /\ (level = "SAFE") <=> (score = 0)

C9_Witness ==
    /\ local # Null
    /\ "heuristicResult" \in DOMAIN local
    /\ local.heuristicResult.riskScore = 50
    /\ local.heuristicResult.riskLevel = "HIGH"

\* C10: in calculateRiskScore the impostor rule fires iff some transaction
\* has a symbol that is USDT or TETHER up to case and a contract other than
\* the canonical one; when it fires the score is 100 however many
\* transactions match, and every impostor contract is a suspicious address.
C10_ImpostorRule ==
    LET imp == ImpostorIdx(rawTxs)
    IN  /\ (imp # {}) <=>
              (calc.matches # <<>> /\ calc.matches[1] = ImpostorText(Cardinality(imp)))
        /\ \A n \in 0..Len(rawTxs) :
              imp = {} => ImpostorText(n) \notin Range(calc.matches)
        /\ imp # {} =>
              /\ calc.score = 100
              /\ \A i \in imp :
                    rawTxs[i].token_info.address \in Range(calc.suspiciousWallets)

C10_Witness ==
    /\ Cardinality(ImpostorIdx(rawTxs)) >= 3
    /\ calc.score = 100
    /\ calc.suspiciousWallets = <<FakeContract1, FakeContract2>>

\* C11: in calculateRiskScore the dust rule fires iff at least 6
\* transactions are inbound to the address, below 0.1 token and less than 30
\* days old; it then adds 20 to the sum, whatever the number of matches, and
\* nothing otherwise (5 matches included).
C11_DustRule ==
    LET n == Cardinality(DustIdx(Wallet, rawTxs, now))
    IN  /\ (n >= 6) <=> (DustText(n) \in Range(calc.matches))
        /\ \A k \in 0..Len(rawTxs) :
              n < 6 => DustText(k) \notin Range(calc.matches)
        /\ Contribution("dust", Wallet, rawTxs, now) = IF n >= 6 THEN 20 ELSE 0

C11_Witness ==
    /\ Cardinality(DustIdx(Wallet, rawTxs, now)) = 6
    /\ Len(rawTxs) > 6
    /\ calc.matches = <<DustText(6)>>
    /\ calc.score = 20

\* C12: when the dust rule fires, the first 3 distinct senders of the
\* matching transactions are suspicious addresses.  The code takes the
\* senders of the first 3 matching transactions, so this fails when two of
\* them share a sender.
C12_ThreeDistinctDustSenders ==
    Cardinality(DustIdx(Wallet, rawTxs, now)) >= 6 =>
        FirstDistinct(DustSenders(Wallet, rawTxs, now), 3)
            \subseteq Range(calc.suspiciousWallets)

\* C13: the fan-in rule fires iff the inbound transactions have at least 16
\* distinct senders and fewer than half of them come from a known exchange;
\* it then adds 25 to the sum, and nothing otherwise.
C13_FanInRule ==
    /\ FanIn(Wallet, rawTxs) <=> (FanInText \in Range(calc.matches))
    /\ Contribution("fanin", Wallet, rawTxs, now)
          = IF FanIn(Wallet, rawTxs) THEN 25 ELSE 0

C13_Witness ==
    LET inb == InboundIdx(Wallet, rawTxs)
    IN  /\ Cardinality({rawTxs[i].from : i \in inb}) = 16
        /\ 2 * Cardinality({i \in inb : rawTxs[i].from \in KNOWN_EXCHANGES})
              = Cardinality(inb) - 1
        /\ FanInText \in Range(calc.matches)

\* C14: on the data TronGrid answered with, the zero-value rule of
\* analyzeTronRisk fires iff at least 4 transactions have a value of
\* exactly zero.  An amount below half a hundredth of a token is displayed
\* as 0.00 and comes back as zero, so this fails.
C14_ZeroValueExact ==
    (pc = "rules" /\ ~isDemoMode) =>
        ((ZeroText \in Range(local.heuristicResult.ruleMatches))
            <=> (Cardinality(ZeroIdx(rawTxs)) >= 4))

\* C15: the bot-frequency rule fires iff at least 6 pairs of adjacent
\* transactions are less than 10 seconds apart; it then adds 15 to the sum,
\* and nothing otherwise; it fires on a history iff it fires on the
\* reversed history.
C15_BotFrequencyRule ==
    LET n == Cardinality(RapidIdx(rawTxs))
    IN  /\ (n >= 6) <=> (BotText \in Range(calc.matches))
        /\ Contribution("bot", Wallet, rawTxs, now) = IF n >= 6 THEN 15 ELSE 0
        /\ (BotText \in Range(calc.matches)) <=>
              (BotText \in
                 Range(calculateRiskScore(Wallet, Reverse(rawTxs), now).matches))

C15_Witness ==
    /\ Cardinality(RapidIdx(rawTxs)) = 6
    /\ Len(rawTxs) > 7
    /\ BotText \in Range(calc.matches)

\* C16: analyzeTronRisk of an empty transaction sequence returns score 0,
\* level SAFE, no finding and no suspicious address, whatever the address.
C16_EmptyHistory ==
    LET empty == [riskScore |-> 0, riskLevel |-> "SAFE",
                  suspiciousWalletsFound |-> <<>>, ruleMatches |-> <<>>]
    IN  /\ \A a \in AddressInputs : analyzeTronRisk(a, <<>>, now) = empty
        /\ (local # Null /\ "heuristicResult" \in DOMAIN local
                /\ local.transactions = <<>>)
              => local.heuristicResult = empty

C16_Witness ==
    /\ pc = "rules"
    /\ local.transactions = <<>>
    /\ local.heuristicResult.riskLevel = "SAFE"
    /\ local.heuristicResult.riskScore = 0

\* C17: the score is min(100, sum of the weights 100, 20, 15, 25, 10 of the
\* rules that fire), and the findings are exactly those of the rules whose
\* own condition holds: a rule fires whether or not another one did.
C17_ScoreIsSumOfWeights ==
    LET sum == SumWeights(DOMAIN Weight, RuleFires(Wallet, rawTxs, now))
    IN  /\ ruleEngine(Wallet, rawTxs, now).risk = sum
        /\ calc.score = Min(100, sum)
        /\ calc.matches = ExpectedFindings(Wallet, rawTxs, now)

C17_Witness ==
    /\ calc.score = 45
    /\ Len(calc.matches) = 3
    /\ Len(rawTxs) > 7

C19_RegistryOnlyLowers ==
    /\ calc.matches = ruleEngineWith(KNOWN_EXCHANGES, Wallet, rawTxs, now).matches
    /\ LET ev == [r \in Registries |-> ruleEngineWith(r, Wallet, rawTxs, now)]
       IN  \A r1, r2 \in Registries :
          r1 \subseteq r2 =>
            LET small == ev[r1]
                large == ev[r2]
            IN  /\ clampScore(large.risk) <= clampScore(small.risk)
                /\ Range(large.matches) \subseteq Range(small.matches)
                /\ Range(large.suspiciousWallets)
                      \subseteq Range(small.suspiciousWallets)

C19_Witness ==
    /\ FanInText \notin Range(calc.matches)
    /\ FanInText \in Range(ruleEngineWith({}, Wallet, rawTxs, now).matches)
    /\ calc.score < clampScore(ruleEngineWith({}, Wallet, rawTxs, now).risk)

\* C20: no local result is computed from a TronGrid answer that holds a
\* record with a negative value.  The code validates nothing and evaluates
\* the rules on such records, so this fails.
C20_MalformedRejected ==
    (local # Null /\ "heuristicResult" \in DOMAIN local /\ ~isDemoMode) =>
        \A i \in 1..Len(rawTxs) : rawTxs[i].value.i >= 0

\* C21: a request is sent to the external service only once the local
\* evaluation of the same handleSearch has returned; it names the address
\* under analysis, carries the first min(30, n) transactions in order and
\* lists exactly the findings of the local evaluation.
C21_ExternalCallAfterLocal ==
    /\ pc = "gemini" => "request" \in DOMAIN local
    /\ (local # Null /\ "request" \in DOMAIN local) =>
          LET req == local.request
              n   == Len(local.transactions)
          IN  /\ "heuristicResult" \in DOMAIN local
              /\ req.walletAddress = local.address
              /\ Len(req.txContext) = IF n < 30 THEN n ELSE 30
              /\ \A i \in 1..Len(req.txContext) :
                    LET sent == req.txContext[i]
                        tx   == local.transactions[i]
                    IN  /\ sent.hash = tx.hash /\ sent.type = tx.type
                        /\ sent.from = tx.from /\ sent.to = tx.to
                        /\ sent.value = tx.value /\ sent.asset = tx.asset
              /\ (IF req.rulesContext = None THEN <<>> ELSE req.rulesContext[1])
                    = local.heuristicResult.ruleMatches

C21_Witness ==
    /\ pc = "gemini"
    /\ Len(local.transactions) = 50
    /\ Len(local.request.txContext) = 30
    /\ local.request.rulesContext # None

\* C22: after a successful response the analysed transactions are the
\* input transactions, one entry each, in order and with their own fields;
\* an entry whose hash no record of the response carries is labelled
\* "Normal" with score 0, and an entry whose hash is matched carries the
\* label and the score of the first record with that hash (the defaults
\* where the record gives none).
C22_AnalysedTransactions ==
    Succeeded =>
        LET out  == analysis.analyzedTransactions
            in   == local.transactions
            recs == IF local.outcome.result.analyzedTransactions = None THEN <<>>
                    ELSE local.outcome.result.analyzedTransactions[1]
        IN  /\ Len(out) = Len(in)
            /\ \A i \in 1..Len(in) :
                  LET hits == {j \in 1..Len(recs) : recs[j].hash = in[i].hash}
                      rec  == recs[CHOOSE j \in hits : \A h \in hits : j <= h]
                  IN  /\ \A f \in DOMAIN in[i] : out[i][f] = in[i][f]
                      /\ hits = {} =>
                            /\ out[i].aiRiskLabel = "Normal"
                            /\ out[i].aiRiskScore = 0
                      /\ hits # {} =>
                            /\ out[i].aiRiskLabel =
                                  IF rec.aiRiskLabel = None THEN "Normal"
                                  ELSE rec.aiRiskLabel[1]
                            /\ out[i].aiRiskScore =
                                  IF rec.aiRiskScore = None THEN 0
                                  ELSE rec.aiRiskScore[1]

C22_Witness ==
    /\ Succeeded
    /\ Len(analysis.analyzedTransactions) >= 3
    /\ analysis.analyzedTransactions[1].aiRiskLabel = "Normal"
    /\ analysis.analyzedTransactions[2].hash = "h2"
    /\ analysis.analyzedTransactions[2].aiRiskLabel = "Dusting"
    /\ analysis.analyzedTransactions[2].aiRiskScore = 70

\* C23: every handleSearch that started ends, with loading off and an
\* analysis or an error set, whether or not the external service answers.
\* The code awaits generateContent without a timeout, so a call that never
\* settles leaves handleSearch waiting and loading on for ever: this fails.
C23_RequestFinishes ==
    (pc # "idle") ~>
        (pc = "idle" /\ ~loading /\ (analysis # Null \/ error # ""))

C25_ExchangesNeverSuspicious ==
    \A w \in Range(calc.suspiciousWallets) : w \notin KNOWN_EXCHANGES

\* the asset symbols a Transaction can carry
AssetSymbols == ProtectedSpellings \cup {"usdc", "Unknown"}

\* a Transaction that carries the asset symbol s
WithAsset(s) ==
    [toTransaction(MakeTx(1, "dust", Now0)) EXCEPT !.asset = s]

\* C26: in analyzeTronRisk, where a transaction carries an asset symbol and
\* no contract address, the impostor rule fires iff some transaction's
\* asset is USDT or TETHER once upper-cased without being the exact string
\* "USDT"; it counts exactly those transactions, a transaction whose asset
\* is exactly "USDT" never matches it (whatever contract issued the token),
\* and the only address it adds to the suspicious addresses is the
\* placeholder "UNKNOWN_CONTRACT".
C26_ImpostorBySymbolOnly ==
    /\ \A s \in AssetSymbols :
          isImpostor(mapForRules(WithAsset(s)))
              <=> (toUpperCase(s) \in {"USDT", "TETHER"} /\ s # "USDT")
    /\ (local # Null /\ "heuristicResult" \in DOMAIN local) =>
          LET txs   == local.transactions
              h     == local.heuristicResult
              hits  == {i \in 1..Len(txs) :
                          /\ toUpperCase(txs[i].asset) \in {"USDT", "TETHER"}
                          /\ txs[i].asset # "USDT"}
              fired == \E n \in 0..Len(txs) :
                          ImpostorText(n) \in Range(h.ruleMatches)
          IN  /\ fired <=> hits # {}
              /\ fired =>
                    /\ h.ruleMatches[1] = ImpostorText(Cardinality(hits))
                    /\ h.suspiciousWalletsFound[1] = "UNKNOWN_CONTRACT"
              /\ ~fired =>
                    "UNKNOWN_CONTRACT" \notin Range(h.suspiciousWalletsFound)
              /\ Range(h.suspiciousWalletsFound)
                    \cap {USDT_CONTRACT, FakeContract1, FakeContract2} = {}

C26_Witness ==
    /\ local # Null
    /\ "heuristicResult" \in DOMAIN local
    /\ Len(local.transactions) >= 2
    /\ local.transactions[1].asset = "usdt"
    /\ rawTxs[1].token_info.address = FakeContract1
    /\ local.heuristicResult.ruleMatches[1] = ImpostorText(Len(local.transactions))
    /\ "UNKNOWN_CONTRACT" \in Range(local.heuristicResult.suspiciousWalletsFound)

\* a token of another contract that spells its symbol exactly "USDT" has
\* gone through analyzeTronRisk without an impostor finding
CloneUndetected ==
    /\ local # Null
    /\ "heuristicResult" \in DOMAIN local
    /\ rawTxs # <<>>
    /\ rawTxs[1].token_info.symbol = "USDT"
    /\ rawTxs[1].token_info.address = FakeContract2
    /\ local.heuristicResult.riskScore = 0

\* the sums the four rules other than the impostor rule can add up to
OtherRuleSums ==
    {SumWeights(S, [r \in DOMAIN Weight |-> TRUE]) :
        S \in SUBSET {"dust", "bot", "fanin", "zero"}}

\* C27: the level analyzeTronRisk derives from the score of
\* calculateRiskScore is CRITICAL iff the impostor rule fired; without an
\* impostor match the score is a sum of some of 20, 15, 25 and 10, at most
\* 70, and the level is at most HIGH.
C27_CriticalIffImpostor ==
    LET level == riskLevelOf(calc.score)
        fired == \E n \in 0..Len(rawTxs) :
                    ImpostorText(n) \in Range(calc.matches)
    IN  /\ level = "CRITICAL" <=> fired
        /\ ~fired =>
              /\ calc.score \in OtherRuleSums
              /\ calc.score <= 70
              /\ level \in {"SAFE", "LOW", "MEDIUM", "HIGH"}

C27_Witness ==
    /\ calc.score = 70
    /\ \A n \in 0..Len(rawTxs) : ImpostorText(n) \notin Range(calc.matches)
    /\ riskLevelOf(calc.score) = "HIGH"

====
